---- MODULE Spec2Model ----
(***************************************************************************)
(* Model of add_modern_design.py: a script that reads project.pbxproj,     *)
(* generates two identifiers, splices four text fragments after four       *)
(* literal anchors, writes the file back and prints a report.              *)
(*                                                                         *)
(* Text is modelled character by character: a text is a sequence of        *)
(* one-character strings, and Len, SubSeq and \o act on it as Python's     *)
(* len(), slices and + act on a str.                                       *)
(***************************************************************************)
EXTENDS Integers, Sequences, FiniteSets

Empty == <<>>

\* The text of a string literal, one element per character
Chars(s) == Empty \o [i \in 1..Len(s) |-> SubSeq(s, i, i)]

VARIABLES
    file,           \* text stored at project_path on disk
    content,        \* the variable `content` of the script
    file_ref_id,    \* the variable `file_ref_id` ("" before line 15)
    build_file_id,  \* the variable `build_file_id` ("" before line 16)
    pc,             \* position of the running script
    out,            \* lines printed to standard output by the current run
    run,            \* number of runs of the script started so far
    before,         \* text on disk when the current run started
    ins,            \* insertion steps whose `if` branch was taken in this run
    wrAttempts,     \* open(project_path, 'w') calls made by the current run
    failed,         \* "none", or the file operation that raised in this run
    okRuns          \* runs that reached the end of the script

vars == <<file, content, file_ref_id, build_file_id, pc, out, run, before,
          ins, wrAttempts, failed, okRuns>>

(***************************************************************************)
(* Bounds of the model.                                                    *)
(***************************************************************************)
MaxPieces == 4
MaxRuns == 2

(***************************************************************************)
(* The literals the four regular expressions match.  Every metacharacter   *)
(* in the patterns is escaped and the single group only brackets the whole *)
(* pattern, so each pattern matches exactly one literal text.              *)
(***************************************************************************)
FileRefMarker == Chars("/* Begin PBXFileReference section */")

BuildFileMarker == Chars("/* Begin PBXBuildFile section */")

group_pattern == Chars("BB0002 /* ContentView.swift */,")

sources_pattern == Chars("AA0002 /* ContentView.swift in Sources */,")

(***************************************************************************)
(* re.search(pattern, text) for a literal pattern: the start (1-based) of  *)
(* the leftmost occurrence, 0 when there is none.                          *)
(***************************************************************************)
\* pat stands in text at position i
MatchAt(pat, text, i) ==
    /\ i >= 1
    /\ i + Len(pat) - 1 <= Len(text)
    /\ \A k \in 1..Len(pat) : text[i + k - 1] = pat[k]

\* The starts of all occurrences of pat in text
Occurrences(pat, text) ==
    LET first == pat[1]
    IN  { i \in 1..(Len(text) - Len(pat) + 1) :
            text[i] = first /\ MatchAt(pat, text, i) }

Search(pat, text) ==
    LET occ == Occurrences(pat, text)
    IN  IF occ = {} THEN 0 ELSE CHOOSE i \in occ : \A j \in occ : i <= j

\* match.start() taken for match.end()
MatchEndAsStart(pat, text) == Search(pat, text) - 1

\* match.end(): the number of characters up to the end of the match
MatchEnd(pat, text) == Search(pat, text) + Len(pat) - 1

\* the tail slice starting one character early
SpliceRepeatsChar(text, insert_pos, fragment) ==
    SubSeq(text, 1, insert_pos) \o fragment \o SubSeq(text, insert_pos, Len(text))

\* the tail slice starting one character late
SpliceDropsChar(text, insert_pos, fragment) ==
    SubSeq(text, 1, insert_pos) \o fragment \o SubSeq(text, insert_pos + 2, Len(text))

\* content[:insert_pos] + fragment + content[insert_pos:]
Splice(text, insert_pos, fragment) ==
    SubSeq(text, 1, insert_pos) \o fragment \o SubSeq(text, insert_pos + 1, Len(text))

(***************************************************************************)
(* Identifiers: uuid.uuid4().hex[:24].upper().  uuid4().hex is 32 lower    *)
(* case hexadecimal digits with the version digit 4 at index 12 and the    *)
(* variant digit (8, 9, a or b) at index 16.  The random source is         *)
(* modelled by a choice among sample values; the first ends (after the     *)
(* slice) in the prefix of group_pattern, the second in the prefix of      *)
(* sources_pattern.                                                        *)
(***************************************************************************)
Uuid4Hex == { Chars("0a1b2c3d4e5f4a6b8cbb0002f1e2d3c4"),
              Chars("c89114c7c0484d68b4aa0002710324ce") }

UpperChar(c) ==
    CASE c = "a" -> "A" [] c = "b" -> "B" [] c = "c" -> "C"
      [] c = "d" -> "D" [] c = "e" -> "E" [] c = "f" -> "F"
      [] OTHER -> c

\* str.upper() on hexadecimal digits
Upper(s) == Empty \o [i \in 1..Len(s) |-> UpperChar(s[i])]

\* .upper() forgotten
NewIdLower(hex) == SubSeq(hex, 1, 24)

NewId(hex) == Upper(SubSeq(hex, 1, 24))

(***************************************************************************)
(* The four fragments.                                                     *)
(***************************************************************************)
FileRefTail ==
    Chars(" /* ModernDesign.swift */ = {isa = PBXFileReference; lastKnownFileType = sourcecode.swift; path = ModernDesign.swift; sourceTree = \"<group>\"; };")

file_ref(fid) == Chars("\t\t") \o fid \o FileRefTail

BuildFileMid ==
    Chars(" /* ModernDesign.swift in Sources */ = {isa = PBXBuildFile; fileRef = ")

BuildFileTail == Chars(" /* ModernDesign.swift */; };")

build_file(bid, fid) ==
    Chars("\t\t") \o bid \o BuildFileMid \o fid \o BuildFileTail

NewLine == Chars("\n")

RefFragment(fid) == NewLine \o file_ref(fid)

BuildFragment(bid, fid) == NewLine \o build_file(bid, fid)

GroupIndent == Chars("\n\t\t\t\t")

GroupTail == Chars(" /* ModernDesign.swift */,")

SourcesTail == Chars(" /* ModernDesign.swift in Sources */,")

GroupFragment(fid) == GroupIndent \o fid \o GroupTail

SourcesFragment(bid) == GroupIndent \o bid \o SourcesTail

(***************************************************************************)
(* Console lines.                                                          *)
(***************************************************************************)
SuccessLine == Chars("Successfully added ModernDesign.swift to Xcode project")

FileRefLine(fid) == Chars("File Reference ID: ") \o fid

BuildFileLine(bid) == Chars("Build File ID: ") \o bid

(***************************************************************************)
(* Initial files: at most MaxPieces different pieces, in any order.  The   *)
(* pieces are the four anchors, the group-list entry on a line of its own  *)
(* (a second occurrence of that anchor, or its only one), and the          *)
(* PBXBuildFile marker without its leading '/': after a marker it shares   *)
(* that marker's final '/', anywhere else it is text that is no anchor.    *)
(***************************************************************************)
Pieces == { FileRefMarker, BuildFileMarker, group_pattern, sources_pattern,
            NewLine \o group_pattern,
            Chars("* Begin PBXBuildFile section */") }

RECURSIVE Concat(_)
Concat(ps) == IF Len(ps) = 0 THEN Empty ELSE Head(ps) \o Concat(Tail(ps))

Arrangements ==
    { ps \in UNION { [1..n -> Pieces] : n \in 0..MaxPieces } :
        \A i, j \in 1..Len(ps) : i # j => ps[i] # ps[j] }

InitialFiles == { Concat(ps) : ps \in Arrangements }

Anchors == {FileRefMarker, BuildFileMarker, group_pattern, sources_pattern}

Start(f) ==
    /\ file = f
    /\ before = f
    /\ content = Empty
    /\ file_ref_id = Empty
    /\ build_file_id = Empty
    /\ pc = "read"
    /\ out = <<>>
    /\ run = 1
    /\ ins = {}
    /\ wrAttempts = 0
    /\ failed = "none"
    /\ okRuns = 0

Init == \E f \in InitialFiles : Start(f)

(***************************************************************************)
(* Lines 11-12: open for reading and read everything.                      *)
(***************************************************************************)
Read ==
    /\ pc = "read"
    /\ content' = file
    /\ pc' = "gen_ref"
    /\ UNCHANGED <<file, file_ref_id, build_file_id, out, run, before, ins,
                   wrAttempts, failed, okRuns>>

\* open(project_path, 'r') or f.read() raises: the script ends there
ReadFails ==
    /\ pc = "read"
    /\ failed' = "read"
    /\ pc' = "error"
    /\ UNCHANGED <<file, content, file_ref_id, build_file_id, out, run,
                   before, ins, wrAttempts, okRuns>>

\* Line 15
GenFileRefId ==
    /\ pc = "gen_ref"
    /\ \E hex \in Uuid4Hex : file_ref_id' = NewId(hex)
    /\ pc' = "gen_build"
    /\ UNCHANGED <<file, content, build_file_id, out, run, before, ins,
                   wrAttempts, failed, okRuns>>

\* Line 16
GenBuildFileId ==
    /\ pc = "gen_build"
    /\ \E hex \in Uuid4Hex : build_file_id' = NewId(hex)
    /\ pc' = "add_ref"
    /\ UNCHANGED <<file, content, file_ref_id, out, run, before, ins,
                   wrAttempts, failed, okRuns>>

\* the last match taken instead of the first
InsertStepAtLast(here, next, anchor, fragment) ==
    /\ pc = here
    /\ LET occ == Occurrences(anchor, content)
       IN  IF occ # {}
           THEN /\ content' = Splice(content,
                                     (CHOOSE i \in occ : \A j \in occ : i >= j)
                                         + Len(anchor) - 1,
                                     fragment)
                /\ ins' = ins \cup {here}
           ELSE /\ content' = content
                /\ ins' = ins
    /\ pc' = next
    /\ UNCHANGED <<file, file_ref_id, build_file_id, out, run, before,
                   wrAttempts, failed, okRuns>>

(***************************************************************************)
(* One insertion step: search the current content for the anchor; when it  *)
(* is found splice the fragment in at the end of the match, otherwise      *)
(* leave the content alone.                                                *)
(***************************************************************************)
InsertStep(here, next, anchor, fragment) ==
    /\ pc = here
    /\ IF Search(anchor, content) # 0
       THEN /\ content' = Splice(content, MatchEnd(anchor, content), fragment)
            /\ ins' = ins \cup {here}
       ELSE /\ content' = content
            /\ ins' = ins
    /\ pc' = next
    /\ UNCHANGED <<file, file_ref_id, build_file_id, out, run, before,
                   wrAttempts, failed, okRuns>>

\* Lines 25-28
AddFileRef ==
    InsertStep("add_ref", "add_build", FileRefMarker, RefFragment(file_ref_id))

\* the second `if` indented under the first one
AddBuildFileNested ==
    IF "add_ref" \in ins
    THEN InsertStep("add_build", "add_group", BuildFileMarker,
                    BuildFragment(build_file_id, file_ref_id))
    ELSE /\ pc = "add_build"
         /\ pc' = "add_group"
         /\ UNCHANGED <<file, content, file_ref_id, build_file_id, out, run,
                        before, ins, wrAttempts, failed, okRuns>>

\* Lines 31-34
AddBuildFile ==
    InsertStep("add_build", "add_group", BuildFileMarker,
               BuildFragment(build_file_id, file_ref_id))

\* an existence check before the insertion
AddGroupOnce ==
    IF Search(GroupTail, content) # 0
    THEN /\ pc = "add_group"
         /\ pc' = "add_sources"
         /\ UNCHANGED <<file, content, file_ref_id, build_file_id, out, run,
                        before, ins, wrAttempts, failed, okRuns>>
    ELSE InsertStep("add_group", "add_sources", group_pattern,
                    GroupFragment(file_ref_id))

\* Lines 38-42
AddGroup ==
    InsertStep("add_group", "add_sources", group_pattern,
               GroupFragment(file_ref_id))

\* the group pattern searched a second time
AddSourcesAtGroup ==
    InsertStep("add_sources", "write", group_pattern,
               SourcesFragment(build_file_id))

\* Lines 45-49
AddSources ==
    InsertStep("add_sources", "write", sources_pattern,
               SourcesFragment(build_file_id))

(***************************************************************************)
(* Lines 52-53: open for writing (which truncates) and write everything.   *)
(***************************************************************************)
Write ==
    /\ pc = "write"
    /\ file' = content
    /\ wrAttempts' = wrAttempts + 1
    /\ pc' = "print_ok"
    /\ UNCHANGED <<content, file_ref_id, build_file_id, out, run, before,
                   ins, failed, okRuns>>

\* the exception swallowed: the script goes on to its report
WriteFailsSilently ==
    /\ pc = "write"
    /\ file' \in {file, Empty}
    /\ wrAttempts' = wrAttempts + 1
    /\ failed' = "write"
    /\ pc' = "print_ok"
    /\ UNCHANGED <<content, file_ref_id, build_file_id, out, run, before,
                   ins, okRuns>>

\* open(project_path, 'w') raises (file untouched) or f.write raises after
\* the open truncated the file: the script ends there
WriteFails ==
    /\ pc = "write"
    /\ file' \in {file, Empty}
    /\ wrAttempts' = wrAttempts + 1
    /\ failed' = "write"
    /\ pc' = "error"
    /\ UNCHANGED <<content, file_ref_id, build_file_id, out, run, before,
                   ins, okRuns>>

PrintStep(here, next, line) ==
    /\ pc = here
    /\ out' = Append(out, line)
    /\ pc' = next
    /\ okRuns' = IF next = "done" THEN okRuns + 1 ELSE okRuns
    /\ UNCHANGED <<file, content, file_ref_id, build_file_id, run, before,
                   ins, wrAttempts, failed>>

\* the success message printed only when all four insertions were made
PrintSuccessIfComplete ==
    IF ins = {"add_ref", "add_build", "add_group", "add_sources"}
    THEN PrintStep("print_ok", "print_ref", SuccessLine)
    ELSE /\ pc = "print_ok"
         /\ pc' = "print_ref"
         /\ UNCHANGED <<file, content, file_ref_id, build_file_id, out, run,
                        before, ins, wrAttempts, failed, okRuns>>

\* Line 55
PrintSuccess == PrintStep("print_ok", "print_ref", SuccessLine)

\* Line 56
PrintFileRefId ==
    PrintStep("print_ref", "print_build", FileRefLine(file_ref_id))

\* Line 57
PrintBuildFileId ==
    PrintStep("print_build", "done", BuildFileLine(build_file_id))

Next ==
    \/ Read
    \/ ReadFails
    \/ GenFileRefId
    \/ GenBuildFileId
    \/ AddFileRef
    \/ AddBuildFile
    \/ AddGroup
    \/ AddSources
    \/ Write
    \/ WriteFails
    \/ PrintSuccess
    \/ PrintFileRefId
    \/ PrintBuildFileId

\* One run of the script on each initial file
Spec == Init /\ [][Next]_vars

(***************************************************************************)
(* Running the script again on the file the previous run left.  The        *)
(* initial files are the arrangements of four pieces in which all four     *)
(* anchors occur.                                                          *)
(***************************************************************************)
RunAgain ==
    /\ pc \in {"done", "error"}
    /\ run < MaxRuns
    /\ run' = run + 1
    /\ before' = file
    /\ content' = Empty
    /\ file_ref_id' = Empty
    /\ build_file_id' = Empty
    /\ out' = <<>>
    /\ ins' = {}
    /\ wrAttempts' = 0
    /\ failed' = "none"
    /\ pc' = "read"
    /\ UNCHANGED <<file, okRuns>>

RerunFiles ==
    { Concat(ps) : ps \in { qs \in [1..Cardinality(Anchors) -> Pieces] :
                              \A i, j \in DOMAIN qs : i # j => qs[i] # qs[j] } }

InitRerun ==
    \E f \in RerunFiles :
        /\ \A a \in Anchors : Search(a, f) # 0
        /\ Start(f)

NextRerun == Next \/ RunAgain

SpecRerun == InitRerun /\ [][NextRerun]_vars

(***************************************************************************)
(* Vocabulary of the properties.                                           *)
(***************************************************************************)
Has(pat, text) == Occurrences(pat, text) # {}

Count(pat, text) == Cardinality(Occurrences(pat, text))

\* fragment stands in text immediately after the leftmost occurrence of anchor
Follows(fragment, anchor, text) ==
    LET occ == Occurrences(anchor, text)
    IN  /\ occ # {}
        /\ MatchAt(fragment, text,
                   (CHOOSE i \in occ : \A j \in occ : i <= j) + Len(anchor))

\* No occurrence of one anchor shares a character with one of another anchor
Apart(occ) ==
    \A a, b \in Anchors :
        a # b => \A i \in occ[a], j \in occ[b] : i + Len(a) <= j \/ j + Len(b) <= i

AnchorsApart(text) == Apart([a \in Anchors |-> Occurrences(a, text)])

\* No ModernDesign.swift entry of any kind
NoEntries(text) ==
    /\ ~Has(FileRefTail, text)
    /\ ~Has(BuildFileMid, text)
    /\ ~Has(GroupTail, text)
    /\ ~Has(SourcesTail, text)

\* A project file with the four anchors as separate pieces of text and
\* ModernDesign.swift not yet registered
WellFormed(text) ==
    /\ \A a \in Anchors : Has(a, text)
    /\ AnchorsApart(text)
    /\ NoEntries(text)

\* The four anchors as separate pieces of text
WellFormedAnchors(text) ==
    /\ \A a \in Anchors : Has(a, text)
    /\ AnchorsApart(text)

AllSteps == {"add_ref", "add_build", "add_group", "add_sources"}

\* The run reached the end of the script
Done == pc = "done"

\* C1: after one run on a well-formed file with all four anchors, each of
\* the four fragments occurs exactly once in the written file, right after
\* its anchor: the reference declaration and the group-list item carry
\* file_ref_id, the build declaration and the build-phase item carry
\* build_file_id, the build declaration's fileRef is file_ref_id, and the
\* identifiers occur nowhere else.
C1_FourLocations ==
    (Done /\ WellFormed(before)) =>
        /\ Count(RefFragment(file_ref_id), file) = 1
        /\ Count(BuildFragment(build_file_id, file_ref_id), file) = 1
        /\ Count(GroupFragment(file_ref_id), file) = 1
        /\ Count(SourcesFragment(build_file_id), file) = 1
        /\ Follows(RefFragment(file_ref_id), FileRefMarker, file)
        /\ Follows(BuildFragment(build_file_id, file_ref_id), BuildFileMarker, file)
        /\ Follows(GroupFragment(file_ref_id), group_pattern, file)
        /\ Follows(SourcesFragment(build_file_id), sources_pattern, file)
        /\ Count(file_ref_id, file) = (IF file_ref_id = build_file_id THEN 5 ELSE 3)
        /\ Count(build_file_id, file) = (IF file_ref_id = build_file_id THEN 5 ELSE 2)

C1_Witness ==
    /\ pc = "done"
    /\ WellFormed(before)
    /\ ins = AllSteps
    /\ file_ref_id # build_file_id
    /\ Count(file_ref_id, file) = 3

\* C2: after one run on a well-formed file with all four anchors, the
\* written file is as long as the file read plus the four fragments.
C2_LengthGrowsByFragments ==
    (Done /\ WellFormed(before)) =>
        Len(file) = Len(before)
                    + Len(RefFragment(file_ref_id))
                    + Len(BuildFragment(build_file_id, file_ref_id))
                    + Len(GroupFragment(file_ref_id))
                    + Len(SourcesFragment(build_file_id))

C2_Witness ==
    /\ pc = "done"
    /\ WellFormed(before)
    /\ Len(file) = Len(before) + 171 + 150 + 55 + 66

\* C3: when the file read has no PBXFileReference marker, the written file
\* has no reference declaration, and each of the other three fragments is
\* inserted (right after its anchor) whenever its anchor is in the file read.
C3_MissingReferenceMarker ==
    (Done /\ ~Has(FileRefMarker, before)) =>
        /\ "add_ref" \notin ins
        /\ ~Has(FileRefTail, file)
        /\ Has(BuildFileMarker, before) =>
              /\ "add_build" \in ins
              /\ Follows(BuildFragment(build_file_id, file_ref_id), BuildFileMarker, file)
        /\ Has(group_pattern, before) =>
              /\ "add_group" \in ins
              /\ Follows(GroupFragment(file_ref_id), group_pattern, file)
        /\ Has(sources_pattern, before) =>
              /\ "add_sources" \in ins
              /\ Follows(SourcesFragment(build_file_id), sources_pattern, file)

C3_Witness ==
    /\ pc = "done"
    /\ ~Has(FileRefMarker, before)
    /\ ins = {"add_build", "add_group", "add_sources"}
    /\ ~Has(FileRefTail, file)
    /\ Has(BuildFileMid, file)

IsUpperHex(c) ==
    c \in {"0", "1", "2", "3", "4", "5", "6", "7", "8", "9",
           "A", "B", "C", "D", "E", "F"}

IsIdentifier(id) == Len(id) = 24 /\ \A i \in 1..Len(id) : IsUpperHex(id[i])

\* C5 as stated: a completed run has printed the two identifiers first and
\* the success message after them.
C5_IdentifiersThenSuccess ==
    Done =>
        out = << Chars("File Reference ID: ") \o file_ref_id,
                 Chars("Build File ID: ") \o build_file_id,
                 Chars("Successfully added ModernDesign.swift to Xcode project") >>

\* C5 (amended): a completed run has printed the success message first,
\* then the reference identifier, then the build identifier, both of them
\* 24 uppercase hexadecimal digits; and nothing is printed before the file
\* has been written.
C5_SuccessThenIdentifiers ==
    /\ Done =>
          /\ out = << Chars("Successfully added ModernDesign.swift to Xcode project"),
                      Chars("File Reference ID: ") \o file_ref_id,
                      Chars("Build File ID: ") \o build_file_id >>
          /\ IsIdentifier(file_ref_id)
          /\ IsIdentifier(build_file_id)
    /\ out # <<>> => (wrAttempts = 1 /\ failed = "none" /\ file = content)

C5_Witness ==
    /\ pc = "done"
    /\ Len(out) = 3
    /\ out[1] = SuccessLine
    /\ file_ref_id # build_file_id
    /\ file = content
    /\ file # before

\* C6: a run in which the read or the write raised ends in the error state
\* with nothing printed; when it was the read, no write was attempted and
\* the file is as it was before the run.
C6_FatalIoError ==
    failed # "none" =>
        /\ pc = "error"
        /\ out = <<>>
        /\ failed = "read" => (wrAttempts = 0 /\ file = before)

C6_Witness ==
    /\ pc = "error"
    /\ failed = "read"
    /\ out = <<>>
    /\ file = before
    /\ file # Empty

\* C7: a run whose read and write both succeeded wrote the file exactly
\* once and printed the success message and both identifiers, whatever
\* subset of the four insertions took place (none included, the written
\* content then being the content read): the report does not depend on it.
C7_UnconditionalSuccess ==
    (Done /\ failed = "none") =>
        /\ wrAttempts = 1
        /\ file = content
        /\ Len(out) = 3
        /\ \E i \in 1..3 : out[i] = SuccessLine
        /\ \E i \in 1..3 : out[i] = FileRefLine(file_ref_id)
        /\ \E i \in 1..3 : out[i] = BuildFileLine(build_file_id)
        /\ ins = {} => file = before

C7_Witness ==
    /\ pc = "done"
    /\ ins = {}
    /\ file = before
    /\ file # Empty
    /\ Len(out) = 3

AnchorOf(st) ==
    CASE st = "add_ref" -> FileRefMarker
      [] st = "add_build" -> BuildFileMarker
      [] st = "add_group" -> group_pattern
      [] st = "add_sources" -> sources_pattern

FragmentOf(st) ==
    CASE st = "add_ref" -> RefFragment(file_ref_id)
      [] st = "add_build" -> BuildFragment(build_file_id, file_ref_id)
      [] st = "add_group" -> GroupFragment(file_ref_id)
      [] st = "add_sources" -> SourcesFragment(build_file_id)

\* The end of the leftmost occurrence of pat in text
FirstEnd(pat, text) ==
    LET occ == Occurrences(pat, text)
    IN  (CHOOSE i \in occ : \A j \in occ : i <= j) + Len(pat) - 1

\* C8: an insertion step whose anchor occurs in the content as it stands
\* puts its fragment right after the end of the anchor's leftmost
\* occurrence and changes nothing else: the text up to that end and the
\* text after it, later occurrences of the anchor included, stay as they are.
C8_AfterFirstOccurrence ==
    [][ \A st \in AllSteps :
          (pc = st /\ Has(AnchorOf(st), content)) =>
              LET e == FirstEnd(AnchorOf(st), content)
                  n == Len(FragmentOf(st))
              IN  /\ Len(content') = Len(content) + n
                  /\ SubSeq(content', 1, e) = SubSeq(content, 1, e)
                  /\ SubSeq(content', e + 1, e + n) = FragmentOf(st)
                  /\ SubSeq(content', e + n + 1, Len(content'))
                        = SubSeq(content, e + 1, Len(content)) ]_vars

C8_Witness ==
    /\ pc = "add_sources"
    /\ "add_group" \in ins
    /\ Count(group_pattern, content) = 2
    /\ Follows(GroupFragment(file_ref_id), group_pattern, content)
    /\ Count(GroupTail, content) = 1

\* C9 as stated: each fragment is inserted if and only if its anchor occurs
\* in the file as read.
C9_Independent ==
    Done => \A st \in AllSteps : st \in ins <=> Has(AnchorOf(st), before)

\* An occurrence of anchor a that shares no character with an occurrence of
\* another anchor
HasClear(a, text) ==
    \E i \in Occurrences(a, text) :
        \A b \in Anchors \ {a} :
            \A j \in Occurrences(b, text) : i + Len(a) <= j \/ j + Len(b) <= i

\* C9 (amended): a fragment is inserted only if its anchor occurs in the
\* file as read (no insertion creates an anchor), and it is inserted
\* whenever its anchor has an occurrence in the file as read that shares no
\* character with an occurrence of another anchor.
C9_NeverCreatesAnchor ==
    Done =>
        \A st \in AllSteps :
            /\ st \in ins => Has(AnchorOf(st), before)
            /\ HasClear(AnchorOf(st), before) => st \in ins

\* The only PBXBuildFile marker shares its first '/' with the end of the
\* PBXFileReference marker: the reference declaration went in, the build
\* declaration did not.
C9_Witness ==
    /\ pc = "done"
    /\ Has(BuildFileMarker, before)
    /\ ~HasClear(BuildFileMarker, before)
    /\ "add_ref" \in ins
    /\ "add_build" \notin ins
    /\ ins = {"add_ref", "add_group", "add_sources"}

\* text without the leftmost occurrence of fragment
Without(fragment, text) ==
    LET occ == Occurrences(fragment, text)
        i == CHOOSE x \in occ : \A y \in occ : x <= y
    IN  IF occ = {} THEN text
        ELSE SubSeq(text, 1, i - 1) \o SubSeq(text, i + Len(fragment), Len(text))

Undo(st, text) == IF st \in ins THEN Without(FragmentOf(st), text) ELSE text

\* C10: the run only adds text: taking the fragments this run inserted out
\* of the written file, last insertion first, gives the file as read.
C10_OnlyAddsText ==
    Done =>
        Undo("add_ref", Undo("add_build",
            Undo("add_group", Undo("add_sources", file)))) = before

C10_Witness ==
    /\ pc = "done"
    /\ ins = AllSteps
    /\ Len(file) > Len(before)
    /\ Has(NewLine, before)

TypeOK ==
    /\ pc \in {"read", "gen_ref", "gen_build", "add_ref", "add_build",
               "add_group", "add_sources", "write", "print_ok", "print_ref",
               "print_build", "done", "error"}
    /\ run \in 1..MaxRuns
====
